---------------------------- MODULE Spec2Model ----------------------------
(***************************************************************************)
(* Consultation report generator: the form's field validation, the view   *)
(* that validates, persists and renders, and the PDF layout.               *)
(*                                                                         *)
(* Text is a sequence of one-character strings.  "tab" stands for the tab  *)
(* character, "0" for the digit zero, "1" for any non-zero digit, "a" for  *)
(* any ASCII letter and "L" for a letter outside Latin-1.                  *)
(***************************************************************************)
EXTENDS Integers, Sequences, FiniteSets, TLC

VARIABLES
    \* ---- contact field (forms.py) ----
    contactField,    \* which contact field the value was posted for
    contactRaw,      \* the posted value
    contactErrors,   \* Pending, or the set of errors of the field
    \* ---- clinic_logo field (forms.py) ----
    logo,            \* the posted file, or NoLogo
    logoErrors,      \* Pending, or the set of errors of the field
    \* ---- ConsultationReportView.post (views.py) ----
    pc,              \* where the request being handled is in post()
    form,            \* the data posted with the request being handled
    formErrors,      \* form.errors: NotCleaned, or the errors of each field
    reports,         \* the stored ConsultationReport rows, oldest first
    reportsAtPost,   \* the stored rows when the request came in
    trace,           \* the calls post() has made for the request, in order
    flash,           \* the messages recorded for the request
    response,        \* what post() returned, NoResponse until it returns
    \* ---- calculate_age (utils.py) ----
    ageDob,          \* the patient's date of birth
    ageToday,        \* datetime.now().date()
    agePrinted,      \* the age a report generated today prints
    \* ---- pdf_filename and the download response (models.py, utils.py) ----
    fnReport,        \* the saved report: patient names and date of birth
    fnResponse,      \* the response generate_pdf_report returns, NoDownload before
    \* ---- generate_pdf_report and ReportDocTemplate (utils.py) ----
    pdfPc,           \* "start", "building" (inside doc.build) or "done"
    pdfReport,       \* report_data: clinic name, lines of complaint and of note
    pdfClientIp,     \* what get_client_ip(request) returns for the request
    pdfClock,        \* the time, which passes while the document is built
    pdfTimestamp,    \* doc.timestamp
    pdfUserIp,       \* doc.user_ip
    pdfStory,        \* the flowables not laid out yet
    pdfPages,        \* the pages begun so far, the last one being filled
    pdfY,            \* the height left in the frame of the last page
    \* ---- get_client_ip (utils.py) ----
    ipXff,           \* request.META.get('HTTP_X_FORWARDED_FOR'): None or a text
    ipRemoteAddr,    \* request.META.get('REMOTE_ADDR'): None or a text
    ipLookup,        \* how the lookup of the public address went
    ipResult,        \* what get_client_ip returned, NotCalled before
    \* ---- validate_form_ajax (views.py) ----
    ajaxBody,        \* request.body of the last validation request, NoBody before
    ajaxResponse     \* the JsonResponse it was answered with, NoAjaxResponse before

contactVars == <<contactField, contactRaw, contactErrors>>
logoVars == <<logo, logoErrors>>
viewVars == <<pc, form, formErrors, reports, reportsAtPost, trace, flash, response>>
ageVars == <<ageDob, ageToday, agePrinted>>
fnVars == <<fnReport, fnResponse>>
pdfVars == <<pdfPc, pdfReport, pdfClientIp, pdfClock, pdfTimestamp, pdfUserIp,
             pdfStory, pdfPages, pdfY>>
ipVars == <<ipXff, ipRemoteAddr, ipLookup, ipResult>>
ajaxVars == <<ajaxBody, ajaxResponse>>
vars == <<contactVars, logoVars, viewVars, ageVars, fnVars, pdfVars, ipVars,
          ajaxVars>>

----------------------------------------------------------------------------
(* Text helpers *)

\* s + t of Python, s \o t here; n copies of the character c.
Rep(c, n) == [i \in 1..n |-> c]

\* \d of the re module, over the alphabet of the model.
Digits == {"0", "1"}
NonZeroDigits == {"1"}
IsDigit(c) == c \in Digits

\* \s of the re module and str.strip()'s whitespace.
Whitespace == {" ", "tab"}
IsSpace(c) == c \in Whitespace

\* [A-Z0-9] under re.IGNORECASE.
IsAlnum(c) == c \in Digits \cup {"a"}

\* str.replace(c, '')
Remove(s, c) == SelectSeq(s, LAMBDA x : x # c)

\* str.strip(): what CharField.to_python does to the posted value.
RECURSIVE LStrip(_)
LStrip(s) == IF s # <<>> /\ IsSpace(Head(s)) THEN LStrip(Tail(s)) ELSE s

RECURSIVE RStrip(_)
RStrip(s) ==
    IF s # <<>> /\ IsSpace(s[Len(s)]) THEN RStrip(SubSeq(s, 1, Len(s) - 1)) ELSE s

Strip(s) == RStrip(LStrip(s))

\* The positions of the character c in s.
Positions(s, c) == {i \in 1..Len(s) : s[i] = c}

Max(S) == CHOOSE x \in S : \A y \in S : y <= x

\* The errors of a field that has not been cleaned yet.
Pending == {"pending"}

----------------------------------------------------------------------------
(* forms.py: contact validation *)

MaxLength == 255

MsgRequired == "This field is required."
MsgMaxLength == "Ensure this value has at most 255 characters."
MsgContact == "Please enter a valid email address or phone number."

\* user_regex of django.core.validators.EmailValidator (the dot-atom form):
\* one or more atoms separated by single dots.
AtomChars == Digits \cup {"a", "+", "-"}
UserPartOk(u) ==
    /\ u # <<>>
    /\ \A i \in 1..Len(u) : u[i] \in AtomChars \cup {"."}
    /\ u[1] # "." /\ u[Len(u)] # "."
    /\ \A i \in 1..(Len(u) - 1) : ~(u[i] = "." /\ u[i + 1] = ".")

\* domain_regex of EmailValidator: labels of letters, digits and inner hyphens,
\* each followed by a dot, then a last label of 2 to 63 letters, digits or
\* hyphens that does not end with a hyphen.
LabelOk(l) ==
    /\ Len(l) \in 1..63
    /\ \A i \in 1..Len(l) : IsAlnum(l[i]) \/ l[i] = "-"
    /\ IsAlnum(l[1]) /\ IsAlnum(l[Len(l)])

TldOk(l) ==
    /\ Len(l) \in 2..63
    /\ \A i \in 1..Len(l) : IsAlnum(l[i]) \/ l[i] = "-"
    /\ l[Len(l)] # "-"

DomainPartOk(d) ==
    LET dots == Positions(d, ".")
        \* the label that ends at the dot in position p
        Start(p) == IF \E q \in dots : q < p
                    THEN Max({q \in dots : q < p}) + 1 ELSE 1
    IN  /\ dots # {}
        /\ \A p \in dots : LabelOk(SubSeq(d, Start(p), p - 1))
        /\ TldOk(SubSeq(d, Max(dots) + 1, Len(d)))

\* validate_email(contact) does not raise.
ValidateEmail(v) ==
    LET ats == Positions(v, "@") IN
    /\ v # <<>> /\ ats # {} /\ Len(v) <= 320
    /\ UserPartOk(SubSeq(v, 1, Max(ats) - 1))
    /\ DomainPartOk(SubSeq(v, Max(ats) + 1, Len(v)))

\* contact.replace(' ', '').replace('-', '').replace('(', '').replace(')', '')
StripSeparators(v) == Remove(Remove(Remove(Remove(v, " "), "-"), "("), ")")

\* ^[\+]?[1-9][\d]{0,15}$
PhoneAlt1(t) ==
    LET u == IF t # <<>> /\ t[1] = "+" THEN Tail(t) ELSE t IN
    /\ Len(u) \in 1..16
    /\ u[1] \in NonZeroDigits
    /\ \A i \in 2..Len(u) : IsDigit(u[i])

\* ^[\d\s\-\(\)]{10,}$
PhoneAlt2(t) ==
    /\ Len(t) >= 10
    /\ \A i \in 1..Len(t) : IsDigit(t[i]) \/ IsSpace(t[i]) \/ t[i] \in {"-", "(", ")"}

\* re.match(phone_pattern, ...)
PhonePatternMatches(t) == PhoneAlt1(t) \/ PhoneAlt2(t)

IsValidContact(contact) ==
    \/ ValidateEmail(contact)
    \/ PhonePatternMatches(StripSeparators(contact))

\* clean_physician_contact / clean_patient_contact on cleaned_data's value:
\* the errors it raises.
CleanContact(contact) ==
    IF contact # <<>> /\ ~IsValidContact(contact) THEN {MsgContact} ELSE {}

\* The form's cleaning of one contact field: CharField.clean (strip, required,
\* max_length of the model field), and clean_<field> only when that passed.
ContactFieldErrors(raw) ==
    LET value == Strip(raw) IN
    IF value = <<>> THEN {MsgRequired}
    ELSE IF Len(value) > MaxLength THEN {MsgMaxLength}
    ELSE CleanContact(value)

\* ---- the posted contacts of the model ----
MaxRuns == 3
RunLens == {1, 9, 16}
PhoneAlphabet == {"0", "1", "+", " ", "-", "(", ")", "tab", "a", "@"}

\* Texts of up to n runs of one repeated character.
RECURSIVE RunTexts(_)
RunTexts(n) ==
    IF n = 0 THEN {<<>>}
    ELSE LET shorter == RunTexts(n - 1) IN
         shorter \cup {Rep(c, k) \o s : c \in PhoneAlphabet, k \in RunLens, s \in shorter}

Locals == {<<>>, <<"a">>, <<"a", ".", "a">>, <<".", "a">>, <<"a", "+", "1">>, <<"a", " ">>}
Domains == {<<"a", ".", "a", "a">>, <<"a", ".", "a">>, <<"a", "a">>,
            <<"a", "-", ".", "a", "a">>, <<"a", "-", "a", ".", "a", "1">>,
            <<"a", ".", "a", "-">>, <<"a", ".", "-", "a">>, <<".", "a", "a">>,
            <<"a", ".", ".", "a", "a">>, <<"a", ".", "a", ".", "a", "a">>}
EmailTexts == {u \o <<"@">> \o d : u \in Locals, d \in Domains}

\* What is posted for a contact field: up to n runs, or an email-like text.
PostedContacts(n) == RunTexts(n) \cup EmailTexts

ContactFields == {"physician_contact", "patient_contact"}

ContactInit ==
    /\ contactField \in ContactFields
    /\ contactRaw \in PostedContacts(MaxRuns)
    /\ contactErrors = Pending

ContactIdle ==
    /\ contactField = "physician_contact"
    /\ contactRaw = <<>>
    /\ contactErrors = Pending

CleanPhysicianContact ==
    /\ contactField = "physician_contact"
    /\ contactErrors = Pending
    /\ contactErrors' = ContactFieldErrors(contactRaw)
    /\ UNCHANGED <<contactField, contactRaw>>

CleanPatientContact ==
    /\ contactField = "patient_contact"
    /\ contactErrors = Pending
    /\ contactErrors' = ContactFieldErrors(contactRaw)
    /\ UNCHANGED <<contactField, contactRaw>>

----------------------------------------------------------------------------
(* forms.py: clinic_logo validation *)

MsgLogoSize == "File size cannot exceed 5MB."
MsgLogoType == "Please upload a valid image file (JPEG, PNG, GIF, or WebP)."

\* 5 * 1024 * 1024
MaxLogoBytes == 5 * 1024 * 1024

AllowedTypes == {"image/jpeg", "image/png", "image/gif", "image/webp"}

\* The same method with the size test off by one.
CleanClinicLogoOffByOne(f) ==
    IF ~f.present THEN {}
    ELSE IF f.size >= MaxLogoBytes THEN {MsgLogoSize}
    ELSE IF f.has_content_type /\ f.content_type \notin AllowedTypes THEN {MsgLogoType}
    ELSE {}

\* clean_clinic_logo on cleaned_data's value: the error it raises, if any.  The
\* first raise leaves the method, so the size test hides the type test.
CleanClinicLogo(f) ==
    IF ~f.present THEN {}
    ELSE IF f.size > MaxLogoBytes THEN {MsgLogoSize}
    ELSE IF f.has_content_type /\ f.content_type \notin AllowedTypes THEN {MsgLogoType}
    ELSE {}

\* ---- the posted logos of the model ----
\* No file (the field is blank=True, so the form field is not required), or an
\* uploaded file: an UploadedFile always has a content_type attribute, and
\* FileField lets no empty file through to clean_clinic_logo.
MaxLogoMB == 6
Mebibyte == 1024 * 1024
LogoSizes == {m * Mebibyte + d : m \in 0..MaxLogoMB, d \in {-1, 0, 1}} \ {-1, 0}
ContentTypes == AllowedTypes \cup {"image/bmp", "image/tiff", "none"}

NoLogo == [present |-> FALSE, size |-> 0, has_content_type |-> FALSE, content_type |-> "none"]
UploadedLogos ==
    [present : {TRUE}, size : LogoSizes, has_content_type : {TRUE}, content_type : ContentTypes]

LogoInit ==
    /\ logo \in {NoLogo} \cup UploadedLogos
    /\ logoErrors = Pending

LogoIdle ==
    /\ logo = NoLogo
    /\ logoErrors = Pending

CleanClinicLogoStep ==
    /\ logoErrors = Pending
    /\ logoErrors' = CleanClinicLogo(logo)
    /\ UNCHANGED logo

----------------------------------------------------------------------------
(* forms.py, models.py: the whole form *)

FormFields == {"clinic_name", "clinic_logo", "physician_name", "physician_contact",
               "patient_first_name", "patient_last_name", "patient_dob",
               "patient_contact", "chief_complaint", "consultation_note"}

MaxTextLength == 5000

MsgInvalidDate == "Enter a valid date."
MsgComplaintLength == "Chief complaint cannot exceed 5000 characters."
MsgNoteLength == "Consultation note cannot exceed 5000 characters."
MsgModelMaxLength == "Ensure this value has at most 5000 characters."

\* A CharField of the model: strip, required, max_length=255.
CharFieldErrors(raw) ==
    LET value == Strip(raw) IN
    IF value = <<>> THEN {MsgRequired}
    ELSE IF Len(value) > MaxLength THEN {MsgMaxLength}
    ELSE {}

\* patient_dob: a DateField, required; the posted text is empty, not a date,
\* or a date.
DateFieldErrors(posted) ==
    IF posted.kind = "empty" THEN {MsgRequired}
    ELSE IF posted.kind = "invalid" THEN {MsgInvalidDate}
    ELSE {}

\* The same method with the limit off by one.
CleanChiefComplaintOffByOne(complaint) ==
    IF complaint.len # 0 /\ complaint.len > MaxTextLength + 1
    THEN {MsgComplaintLength} ELSE {}

\* clean_chief_complaint: the free text is modelled by its length.
CleanChiefComplaint(complaint) ==
    IF complaint.len # 0 /\ complaint.len > MaxTextLength
    THEN {MsgComplaintLength} ELSE {}

\* clean_consultation_note
CleanConsultationNote(note) ==
    IF note.len # 0 /\ note.len > MaxTextLength
    THEN {MsgNoteLength} ELSE {}

\* MaxLengthValidator(5000) of the model field, run by the ModelForm on the
\* fields the form itself found no error in.
ModelMaxLengthErrors(text) ==
    IF text.len > MaxTextLength THEN {MsgModelMaxLength} ELSE {}

\* A TextField of the form: required, then clean_<field>, then the model's
\* validator.
TextFieldErrors(text, cleanErrors) ==
    IF text.len = 0 THEN {MsgRequired}
    ELSE IF cleanErrors # {} THEN cleanErrors
    ELSE ModelMaxLengthErrors(text)

\* form.errors after form.is_valid() ran the cleaning of every field.
FullClean(d) ==
    [f \in FormFields |->
        CASE f = "clinic_logo" -> CleanClinicLogo(d.clinic_logo)
          [] f \in ContactFields -> ContactFieldErrors(d[f])
          [] f = "patient_dob" -> DateFieldErrors(d.patient_dob)
          [] f = "chief_complaint" ->
                 TextFieldErrors(d.chief_complaint, CleanChiefComplaint(d.chief_complaint))
          [] f = "consultation_note" ->
                 TextFieldErrors(d.consultation_note, CleanConsultationNote(d.consultation_note))
          [] OTHER -> CharFieldErrors(d[f])]

NoErrors == [f \in FormFields |-> {}]
NotCleaned == [f \in FormFields |-> Pending]

\* form.is_valid()
IsValid(errors) == \A f \in FormFields : errors[f] = {}

\* cleaned_data, from which form.save() builds the row.
CleanedData(d) ==
    [f \in FormFields |->
        IF f \in {"clinic_logo", "patient_dob", "chief_complaint", "consultation_note"}
        THEN d[f] ELSE Strip(d[f])]

\* ---- the posted forms of the model ----
TextLens == {0, 1, MaxTextLength, MaxTextLength + 1}
Texts == [len : TextLens]

SampleDob == [kind |-> "date", y |-> 1990, m |-> 2, d |-> 28]
PostedDobs == {[kind |-> "empty", y |-> 0, m |-> 0, d |-> 0],
               [kind |-> "invalid", y |-> 0, m |-> 0, d |-> 0],
               SampleDob}

SampleContacts == {<<>>, <<"a", "@", "a", ".", "a", "a">>, <<" ", "1", "0">>,
                   <<"0", "1", "-", "0", "1">>}
SampleNames == {<<>>, <<" ">>, <<"a">>}
SampleLogos == {NoLogo} \cup
    [present : {TRUE}, size : {MaxLogoBytes, MaxLogoBytes + 1},
     has_content_type : {TRUE}, content_type : {"image/png", "image/bmp"}]

BaseForm ==
    [clinic_name |-> <<"a">>, clinic_logo |-> NoLogo,
     physician_name |-> <<"a">>, physician_contact |-> <<"1", "0">>,
     patient_first_name |-> <<"a">>, patient_last_name |-> <<"a">>,
     patient_dob |-> SampleDob, patient_contact |-> <<"1", "0">>,
     chief_complaint |-> [len |-> 1], consultation_note |-> [len |-> 1]]

\* The base form with one group of fields varied at a time.
PostedForms ==
    {[BaseForm EXCEPT !.chief_complaint = c, !.consultation_note = n] :
        c \in Texts, n \in Texts}
    \cup {[BaseForm EXCEPT !.physician_contact = p, !.patient_contact = q] :
        p \in SampleContacts, q \in SampleContacts}
    \cup {[BaseForm EXCEPT !.clinic_logo = l] : l \in SampleLogos}
    \cup {[BaseForm EXCEPT !.patient_dob = b] : b \in PostedDobs}
    \cup {[BaseForm EXCEPT ![f] = v] :
        f \in {"clinic_name", "physician_name", "patient_first_name", "patient_last_name"},
        v \in SampleNames}
    \cup {[BaseForm EXCEPT !.clinic_logo = l, !.chief_complaint = c, !.patient_dob = b] :
        l \in SampleLogos, c \in Texts, b \in PostedDobs}

----------------------------------------------------------------------------
(* views.py: ConsultationReportView.post *)

MaxReports == 2

NoResponse == [kind |-> "none", has_form_errors |-> FALSE, form_errors |-> NoErrors]
MsgPdfError == "Error generating PDF"

ViewInit ==
    /\ pc = "idle"
    /\ form = BaseForm
    /\ formErrors = NotCleaned
    /\ reports = <<>>
    /\ reportsAtPost = <<>>
    /\ trace = <<>>
    /\ flash = {}
    /\ response = NoResponse

\* A POST arrives: form = ConsultationReportForm(request.POST, request.FILES).
Post ==
    /\ pc = "idle"
    /\ Len(reports) < MaxReports
    /\ \E d \in PostedForms : form' = d
    /\ formErrors' = NotCleaned
    /\ reportsAtPost' = reports
    /\ trace' = <<>>
    /\ flash' = {}
    /\ response' = NoResponse
    /\ pc' = "bound"
    /\ UNCHANGED reports

\* if form.is_valid():
FormIsValid ==
    /\ pc = "bound"
    /\ formErrors' = FullClean(form)
    /\ trace' = Append(trace, "is_valid")
    /\ pc' = IF IsValid(FullClean(form)) THEN "valid" ELSE "invalid"
    /\ UNCHANGED <<form, reports, reportsAtPost, flash, response>>

\* The same step taken without waiting for is_valid().
SaveUnvalidated ==
    /\ pc \in {"bound", "valid"}
    /\ reports' = Append(reports, CleanedData(form))
    /\ trace' = Append(trace, "save")
    /\ pc' = "saved"
    /\ UNCHANGED <<form, formErrors, reportsAtPost, flash, response>>

\* The same step taken whatever is_valid() returned.
SaveInvalid ==
    /\ pc \in {"valid", "invalid"}
    /\ reports' = Append(reports, CleanedData(form))
    /\ trace' = Append(trace, "save")
    /\ pc' = "saved"
    /\ UNCHANGED <<form, formErrors, reportsAtPost, flash, response>>

\* report = form.save()
Save ==
    /\ pc = "valid"
    /\ reports' = Append(reports, CleanedData(form))
    /\ trace' = Append(trace, "save")
    /\ pc' = "saved"
    /\ UNCHANGED <<form, formErrors, reportsAtPost, flash, response>>

\* generate_pdf_report(report, request) returns the download.
GeneratePdfReturns ==
    /\ pc = "saved"
    /\ trace' = Append(trace, "generate_pdf_report")
    /\ pc' = "rendered"
    /\ UNCHANGED <<form, formErrors, reports, reportsAtPost, flash, response>>

\* generate_pdf_report(report, request) raises.
GeneratePdfRaises ==
    /\ pc = "saved"
    /\ trace' = trace \o <<"generate_pdf_report", "exception">>
    /\ pc' = "raised"
    /\ UNCHANGED <<form, formErrors, reports, reportsAtPost, flash, response>>

\* return generate_pdf_report(report, request)
ReturnDownload ==
    /\ pc = "rendered"
    /\ response' = [kind |-> "pdf_download", has_form_errors |-> FALSE,
                    form_errors |-> NoErrors]
    /\ trace' = Append(trace, "return")
    /\ pc' = "idle"
    /\ UNCHANGED <<form, formErrors, reports, reportsAtPost, flash>>

\* The same handler undoing the save.
ReturnAfterExceptionRollback ==
    /\ pc = "raised"
    /\ flash' = flash \cup {MsgPdfError}
    /\ reports' = reportsAtPost
    /\ response' = [kind |-> "form_page", has_form_errors |-> FALSE,
                    form_errors |-> NoErrors]
    /\ trace' = Append(trace, "return")
    /\ pc' = "idle"
    /\ UNCHANGED <<form, formErrors, reportsAtPost>>

\* except Exception: messages.error(...); return render(... the form page ...)
ReturnAfterException ==
    /\ pc = "raised"
    /\ flash' = flash \cup {MsgPdfError}
    /\ response' = [kind |-> "form_page", has_form_errors |-> FALSE,
                    form_errors |-> NoErrors]
    /\ trace' = Append(trace, "return")
    /\ pc' = "idle"
    /\ UNCHANGED <<form, formErrors, reports, reportsAtPost>>

\* else: return render(... the form page with form_errors ...)
ReturnInvalid ==
    /\ pc = "invalid"
    /\ response' = [kind |-> "form_page", has_form_errors |-> TRUE,
                    form_errors |-> formErrors]
    /\ trace' = Append(trace, "return")
    /\ pc' = "idle"
    /\ UNCHANGED <<form, formErrors, reports, reportsAtPost, flash>>

ViewIdle ==
    /\ pc = "idle"
    /\ form = BaseForm
    /\ formErrors = NotCleaned
    /\ reports = <<>>
    /\ reportsAtPost = <<>>
    /\ trace = <<>>
    /\ flash = {}
    /\ response = NoResponse

----------------------------------------------------------------------------
(* utils.py: calculate_age *)

\* datetime.date: a day of the proleptic Gregorian calendar.
IsLeap(y) == (y % 4 = 0 /\ y % 100 # 0) \/ y % 400 = 0

DaysInMonth(y, m) ==
    IF m = 2 THEN (IF IsLeap(y) THEN 29 ELSE 28)
    ELSE IF m \in {4, 6, 9, 11} THEN 30 ELSE 31

DatesOf(years) ==
    {[y |-> y, m |-> m, d |-> d] : y \in years, m \in 1..12, d \in 1..31}
        \ {t \in [y : years, m : 1..12, d : 1..31] : t.d > DaysInMonth(t.y, t.m)}

NextDay(t) ==
    IF t.d < DaysInMonth(t.y, t.m) THEN [t EXCEPT !.d = t.d + 1]
    ELSE IF t.m < 12 THEN [t EXCEPT !.m = t.m + 1, !.d = 1]
    ELSE [y |-> t.y + 1, m |-> 1, d |-> 1]

\* The same function comparing the day with <= .
CalculateAgeDayOff(dob, today) ==
    LET age == today.y - dob.y IN
    IF today.m < dob.m \/ (today.m = dob.m /\ today.d <= dob.d)
    THEN age - 1 ELSE age

\* calculate_age(dob), with today = datetime.now().date()
CalculateAge(dob, today) ==
    LET age == today.y - dob.y IN
    IF today.m < dob.m \/ (today.m = dob.m /\ today.d < dob.d)
    THEN age - 1 ELSE age

\* ---- the dates of the model ----
FirstYear == 2023
NumYears == 3
LastYear == FirstYear + NumYears - 1
BirthYears == {FirstYear + 1}

AgeInit ==
    /\ ageDob \in DatesOf(BirthYears)
    /\ ageToday = [y |-> FirstYear, m |-> 1, d |-> 1]
    /\ agePrinted = CalculateAge(ageDob, ageToday)

AgeIdle ==
    /\ ageDob = [y |-> FirstYear, m |-> 1, d |-> 1]
    /\ ageToday = [y |-> FirstYear, m |-> 1, d |-> 1]
    /\ agePrinted = 0

\* A day passes and the report is generated again:
\* patient_age = calculate_age(report_data.patient_dob)
NextDayAge ==
    /\ NextDay(ageToday).y <= LastYear
    /\ ageToday' = NextDay(ageToday)
    /\ agePrinted' = CalculateAge(ageDob, NextDay(ageToday))
    /\ UNCHANGED ageDob

----------------------------------------------------------------------------
(* models.py: pdf_filename; utils.py: the download response *)

\* In this part a text is a sequence of the characters themselves.
DigitChars == <<"0", "1", "2", "3", "4", "5", "6", "7", "8", "9">>

\* str(n) for n >= 0
RECURSIVE Decimal(_)
Decimal(n) ==
    IF n < 10 THEN <<DigitChars[n + 1]>>
    ELSE Decimal(n \div 10) \o <<DigitChars[(n % 10) + 1]>>

ZeroPad(s, width) == IF Len(s) < width THEN Rep("0", width - Len(s)) \o s ELSE s

\* patient_dob.strftime('%Y%m%d'): %m and %d are two digits; %Y is four digits
\* from year 1000 on, and below 1000 the C library decides whether it is
\* padded with zeros (padsYear).
Strftime(date, padsYear) ==
    (IF date.y >= 1000 \/ padsYear THEN ZeroPad(Decimal(date.y), 4) ELSE Decimal(date.y))
        \o ZeroPad(Decimal(date.m), 2) \o ZeroPad(Decimal(date.d), 2)

\* ConsultationReport.pdf_filename
PdfFilename(report, padsYear) ==
    <<"C", "R", "_">> \o report.patient_last_name \o <<"_">>
        \o report.patient_first_name \o <<"_">>
        \o Strftime(report.patient_dob, padsYear) \o <<".", "p", "d", "f">>

\* "L" is a letter outside Latin-1; every other character of the model is in it.
IsLatin1(s) == \A i \in 1..Len(s) : s[i] # "L"

\* response['Content-Disposition'] = f'attachment; filename="{...}"': the
\* header is stored as written when it encodes as Latin-1, and as one
\* RFC 2047 encoded word of the whole value otherwise.
ContentDisposition(filename) ==
    [disposition |-> "attachment", filename |-> filename,
     stored_as |-> IF IsLatin1(filename) THEN "latin-1" ELSE "rfc2047"]

NoDownload ==
    [content_type |-> "none",
     content_disposition |-> [disposition |-> "none", filename |-> <<>>, stored_as |-> "none"]]

\* ---- the reports of the model ----
DobYears == {999, 1000, 2024}
PatientNames == {<<"D", "o", "e">>, <<"N", "g">>, <<"L", "i">>}

FilenameInit ==
    /\ fnReport \in [patient_first_name : PatientNames, patient_last_name : PatientNames,
                     patient_dob : DatesOf(DobYears)]
    /\ fnResponse = NoDownload

FilenameIdle ==
    /\ fnReport = [patient_first_name |-> <<"D", "o", "e">>,
                   patient_last_name |-> <<"D", "o", "e">>,
                   patient_dob |-> [y |-> 2024, m |-> 1, d |-> 1]]
    /\ fnResponse = NoDownload

\* generate_pdf_report, from "Create response" to the return.
CreateResponse ==
    /\ fnResponse = NoDownload
    /\ \E padsYear \in BOOLEAN :
        fnResponse' = [content_type |-> "application/pdf",
                       content_disposition |->
                           ContentDisposition(PdfFilename(fnReport, padsYear))]
    /\ UNCHANGED fnReport

----------------------------------------------------------------------------
(* utils.py: ReportDocTemplate and generate_pdf_report *)

\* Heights are in points, rounded to whole points.

\* The frame of the page template: the A4 page (842 high) less topMargin=130
\* and bottomMargin=100 is doc.height, the frame is 100 lower than that, and
\* it keeps 6 points of padding at the top and at the bottom.
FrameHeight == 842 - 130 - 100 - 100 - 2 * 6

\* The paragraph styles: leading, spaceBefore, spaceAfter.
TitleStyle == [leading |-> 22, before |-> 20, after |-> 30]
SectionStyle == [leading |-> 18, before |-> 25, after |-> 12]
ContentStyle == [leading |-> 16, before |-> 0, after |-> 8]
BoxStyle == [leading |-> 18, before |-> 10, after |-> 15]
EndStyle == [leading |-> 12, before |-> 0, after |-> 0]

Paragraph(name, lines, style) ==
    [name |-> name, kind |-> "Paragraph", lines |-> lines,
     leading |-> style.leading, before |-> style.before, after |-> style.after]

Spacer(height) ==
    [name |-> "spacer", kind |-> "Spacer", lines |-> 1,
     leading |-> height, before |-> 0, after |-> 0]

PageBreak ==
    [name |-> "page_break", kind |-> "PageBreak", lines |-> 0,
     leading |-> 0, before |-> 0, after |-> 0]

\* The story without the page break before the consultation note.
BuildStoryNoPageBreak(report) ==
    << Paragraph("title", 1, TitleStyle), Spacer(20),
       Paragraph("clinic_heading", 1, SectionStyle), Spacer(5),
       Paragraph("clinic_name", 1, ContentStyle),
       Paragraph("report_generated", 1, ContentStyle), Spacer(20),
       Paragraph("physician_heading", 1, SectionStyle), Spacer(5),
       Paragraph("physician_name", 1, ContentStyle),
       Paragraph("physician_contact", 1, ContentStyle), Spacer(20),
       Paragraph("patient_heading", 1, SectionStyle), Spacer(5),
       Paragraph("patient_name", 1, ContentStyle),
       Paragraph("patient_dob", 1, ContentStyle),
       Paragraph("patient_age", 1, ContentStyle),
       Paragraph("patient_contact", 1, ContentStyle), Spacer(30),
       Paragraph("complaint_heading", 1, SectionStyle),
       Paragraph("complaint_text", report.complaint_lines, BoxStyle), Spacer(20),
       Paragraph("note_heading", 1, SectionStyle),
       Paragraph("note_text", report.note_lines, BoxStyle), Spacer(50),
       Paragraph("end_of_report", 4, EndStyle) >>

\* story, as generate_pdf_report appends to it.
BuildStory(report) ==
    << Paragraph("title", 1, TitleStyle), Spacer(20),
       Paragraph("clinic_heading", 1, SectionStyle), Spacer(5),
       Paragraph("clinic_name", 1, ContentStyle),
       Paragraph("report_generated", 1, ContentStyle), Spacer(20),
       Paragraph("physician_heading", 1, SectionStyle), Spacer(5),
       Paragraph("physician_name", 1, ContentStyle),
       Paragraph("physician_contact", 1, ContentStyle), Spacer(20),
       Paragraph("patient_heading", 1, SectionStyle), Spacer(5),
       Paragraph("patient_name", 1, ContentStyle),
       Paragraph("patient_dob", 1, ContentStyle),
       Paragraph("patient_age", 1, ContentStyle),
       Paragraph("patient_contact", 1, ContentStyle), Spacer(30),
       Paragraph("complaint_heading", 1, SectionStyle),
       Paragraph("complaint_text", report.complaint_lines, BoxStyle), Spacer(20),
       PageBreak,
       Paragraph("note_heading", 1, SectionStyle),
       Paragraph("note_text", report.note_lines, BoxStyle), Spacer(50),
       Paragraph("end_of_report", 4, EndStyle) >>

\* The same callback reading the time again for every page.
AddPageDecorationsCurrentTime(report, timestamp, user_ip, now, page_num) ==
    [clinic_name |-> report.clinic_name,
     footer |-> [timestamp |-> now, user_ip |-> user_ip],
     page_label |-> page_num]

\* ReportDocTemplate.add_page_decorations: what it draws on the page that
\* canvas.getPageNumber() numbers page_num; now is the time of the call.
AddPageDecorations(report, timestamp, user_ip, now, page_num) ==
    [clinic_name |-> report.clinic_name,
     footer |-> [timestamp |-> timestamp, user_ip |-> user_ip],
     page_label |-> page_num]

\* A page begins: the page template calls onPage, then the frame is empty.
BeginPage(pages, report, timestamp, user_ip, now) ==
    Append(pages,
           [decorations |->
                AddPageDecorations(report, timestamp, user_ip, now, Len(pages) + 1),
            content |-> <<>>])

\* ---- the frame of the page being filled ----
CurrentPage == pdfPages[Len(pdfPages)]
AtTop == CurrentPage.content = <<>>
NextFlowable == Head(pdfStory)

\* The space before a flowable is dropped at the top of the frame.
SpaceBefore(f) == IF AtTop THEN 0 ELSE f.before
FlowableHeight(f) == f.lines * f.leading

\* Frame.add succeeds.
Fits(f) == pdfY - SpaceBefore(f) > 0 /\ SpaceBefore(f) + FlowableHeight(f) <= pdfY

\* The lines of a paragraph that fit in what is left of the frame.
LinesThatFit(f) ==
    IF pdfY - SpaceBefore(f) > 0 THEN (pdfY - SpaceBefore(f)) \div f.leading ELSE 0

\* Paragraph.split returns two parts: not for a single line (no orphans).
CanSplit(f) ==
    f.kind = "Paragraph" /\ LinesThatFit(f) >= 2 /\ LinesThatFit(f) < f.lines

Drawn(name) ==
    [pdfPages EXCEPT ![Len(pdfPages)].content = Append(@, name)]

\* ---- the reports and requests of the model ----
MaxLines == 30
\* What get_client_ip can return: an address, 'Unknown', None or ''.
UserIps == {"198.51.100.7", "Unknown", "None", ""}

PdfInit ==
    /\ pdfPc = "start"
    /\ pdfReport \in [clinic_name : {<<"a">>},
                      complaint_lines : 1..MaxLines, note_lines : 1..MaxLines]
    /\ pdfClientIp \in UserIps
    /\ pdfClock = 0
    /\ pdfTimestamp = -1
    /\ pdfUserIp = "none"
    /\ pdfStory = <<>>
    /\ pdfPages = <<>>
    /\ pdfY = 0

PdfIdle ==
    /\ pdfPc = "start"
    /\ pdfReport = [clinic_name |-> <<"a">>, complaint_lines |-> 1, note_lines |-> 1]
    /\ pdfClientIp = "Unknown"
    /\ pdfClock = 0
    /\ pdfTimestamp = -1
    /\ pdfUserIp = "none"
    /\ pdfStory = <<>>
    /\ pdfPages = <<>>
    /\ pdfY = 0

\* generate_pdf_report up to doc.build(story), and the first page begun: the
\* timestamp and the user IP are taken here and given to the template.
StartBuild ==
    /\ pdfPc = "start"
    /\ pdfTimestamp' = pdfClock
    /\ pdfUserIp' = pdfClientIp
    /\ pdfStory' = BuildStory(pdfReport)
    /\ pdfPages' = BeginPage(<<>>, pdfReport, pdfClock, pdfClientIp, pdfClock)
    /\ pdfY' = FrameHeight
    /\ pdfClock' = pdfClock + 1
    /\ pdfPc' = "building"
    /\ UNCHANGED <<pdfReport, pdfClientIp>>

\* The next flowable fits in the frame and is drawn.
PlaceFlowable ==
    /\ pdfPc = "building" /\ pdfStory # <<>>
    /\ NextFlowable.kind # "PageBreak"
    /\ Fits(NextFlowable)
    /\ pdfPages' = Drawn(NextFlowable.name)
    /\ pdfY' = pdfY - SpaceBefore(NextFlowable) - FlowableHeight(NextFlowable)
                   - NextFlowable.after
    /\ pdfStory' = Tail(pdfStory)
    /\ pdfClock' = pdfClock + 1
    /\ UNCHANGED <<pdfPc, pdfReport, pdfClientIp, pdfTimestamp, pdfUserIp>>

\* The paragraph does not fit: its first lines are drawn and the rest goes
\* back to the front of the story.
SplitParagraph ==
    /\ pdfPc = "building" /\ pdfStory # <<>>
    /\ NextFlowable.kind # "PageBreak"
    /\ ~Fits(NextFlowable) /\ CanSplit(NextFlowable)
    /\ LET k == LinesThatFit(NextFlowable) IN
        /\ pdfPages' = Drawn(NextFlowable.name)
        /\ pdfY' = pdfY - SpaceBefore(NextFlowable) - k * NextFlowable.leading
                       - NextFlowable.after
        /\ pdfStory' = <<[NextFlowable EXCEPT !.lines = @ - k]>> \o Tail(pdfStory)
    /\ pdfClock' = pdfClock + 1
    /\ UNCHANGED <<pdfPc, pdfReport, pdfClientIp, pdfTimestamp, pdfUserIp>>

\* The flowable neither fits nor splits: the frame and the page end, the next
\* page begins and the flowable stays first in the story.  (At the top of a
\* frame every flowable of this story fits or splits, so none is too large.)
PostponeFlowable ==
    /\ pdfPc = "building" /\ pdfStory # <<>>
    /\ NextFlowable.kind # "PageBreak"
    /\ ~Fits(NextFlowable) /\ ~CanSplit(NextFlowable) /\ ~AtTop
    /\ pdfPages' = BeginPage(pdfPages, pdfReport, pdfTimestamp, pdfUserIp, pdfClock)
    /\ pdfY' = FrameHeight
    /\ pdfClock' = pdfClock + 1
    /\ UNCHANGED <<pdfPc, pdfReport, pdfClientIp, pdfTimestamp, pdfUserIp, pdfStory>>

\* PageBreak(): the page ends whatever is on it, and the next one begins.
BreakPage ==
    /\ pdfPc = "building" /\ pdfStory # <<>>
    /\ NextFlowable.kind = "PageBreak"
    /\ pdfPages' = BeginPage(pdfPages, pdfReport, pdfTimestamp, pdfUserIp, pdfClock)
    /\ pdfY' = FrameHeight
    /\ pdfStory' = Tail(pdfStory)
    /\ pdfClock' = pdfClock + 1
    /\ UNCHANGED <<pdfPc, pdfReport, pdfClientIp, pdfTimestamp, pdfUserIp>>

\* The story is used up: the last page ends and doc.build returns.
EndBuild ==
    /\ pdfPc = "building" /\ pdfStory = <<>>
    /\ pdfPc' = "done"
    /\ pdfClock' = pdfClock + 1
    /\ UNCHANGED <<pdfReport, pdfClientIp, pdfTimestamp, pdfUserIp, pdfStory,
                   pdfPages, pdfY>>

----------------------------------------------------------------------------
(* utils.py: get_client_ip *)

\* In this section "c" and "x" each stand for the text of one address and
\* "," is the comma.  None is Python's None, which is no text at all.
None == <<"None">>
Unknown == <<"U", "n", "k", "n", "o", "w", "n">>
PublicIp == <<"p">>
NotCalled == <<"not called">>

\* bool(v) is False: v is None or the empty text.
Falsy(v) == v = None \/ v = <<>>

\* s.split(',')[0]: the text before the first comma, all of s without one.
SplitFirst(s) ==
    LET commas == {i \in DOMAIN s : s[i] = ","} IN
        IF commas = {} THEN s
        ELSE SubSeq(s, 1, (CHOOSE i \in commas : \A j \in commas : i <= j) - 1)

\* ip as the lines before the try leave it.
ForwardedOrRemote(xff, remoteAddr) ==
    IF ~Falsy(xff) THEN SplitFirst(xff) ELSE remoteAddr

\* The outcomes of the try block: requests.get or response.json() raises, or
\* the JSON object is read and its 'ip' is missing, empty or an address.
LookupRaised == [raised |-> TRUE, ip |-> None]
LookupReturned(ip) == [raised |-> FALSE, ip |-> ip]
NotLookedUp == [raised |-> FALSE, ip |-> NotCalled]
ReportedIps == {None, <<>>, PublicIp}

GetClientIp(xff, remoteAddr, lookup) ==
    LET ip == ForwardedOrRemote(xff, remoteAddr) IN
        IF lookup.raised
        THEN IF Falsy(ip) THEN Unknown ELSE ip
        ELSE IF ~Falsy(lookup.ip) THEN lookup.ip ELSE ip

MaxHeaderLen == 3

RECURSIVE HeaderTexts(_)
HeaderTexts(n) ==
    IF n = 0 THEN {<<>>}
    ELSE LET shorter == HeaderTexts(n - 1) IN
        shorter \cup {Append(t, c) : t \in shorter, c \in {"c", "x", ","}}

IpInit ==
    /\ ipXff \in {None} \cup HeaderTexts(MaxHeaderLen)
    /\ ipRemoteAddr \in {None, <<>>, <<"c">>}
    /\ ipLookup = NotLookedUp
    /\ ipResult = NotCalled

IpIdle ==
    /\ ipXff = None
    /\ ipRemoteAddr = None
    /\ ipLookup = NotLookedUp
    /\ ipResult = NotCalled

\* get_client_ip(request) when the lookup raises nothing.
GetClientIpLookupReturns ==
    /\ ipResult = NotCalled
    /\ \E ip \in ReportedIps :
        /\ ipLookup' = LookupReturned(ip)
        /\ ipResult' = GetClientIp(ipXff, ipRemoteAddr, LookupReturned(ip))
    /\ UNCHANGED <<ipXff, ipRemoteAddr>>

\* get_client_ip(request) when the lookup raises.
GetClientIpLookupRaises ==
    /\ ipResult = NotCalled
    /\ ipLookup' = LookupRaised
    /\ ipResult' = GetClientIp(ipXff, ipRemoteAddr, LookupRaised)
    /\ UNCHANGED <<ipXff, ipRemoteAddr>>

----------------------------------------------------------------------------
(* views.py: validate_form_ajax *)

MsgAjaxError == "Validation error occurred"

\* The form's data when nothing is posted for any field.
MissingForm ==
    [clinic_name |-> <<>>, clinic_logo |-> NoLogo,
     physician_name |-> <<>>, physician_contact |-> <<>>,
     patient_first_name |-> <<>>, patient_last_name |-> <<>>,
     patient_dob |-> [kind |-> "empty", y |-> 0, m |-> 0, d |-> 0],
     patient_contact |-> <<>>,
     chief_complaint |-> [len |-> 0], consultation_note |-> [len |-> 0]]

\* form_data = {field_name: field_value}: every other field is missing, and
\* no file is bound, so clinic_logo is missing whatever was posted for it.
FormData(field, value) ==
    IF field \in FormFields \ {"clinic_logo"}
    THEN [MissingForm EXCEPT ![field] = value]
    ELSE MissingForm

\* request.body: not JSON, JSON that is no object (data.get raises), or an
\* object, given by its 'field' and the form data built from its 'value'.
\* "no_such_field" is a name the form has no field for, "None" a missing
\* 'field' key.
NoBody == [kind |-> "none", field |-> "none", form_data |-> MissingForm]
NotJson == [kind |-> "not_json", field |-> "none", form_data |-> MissingForm]
JsonNotObject == [kind |-> "json_not_object", field |-> "none", form_data |-> MissingForm]
JsonObject(field, value) ==
    [kind |-> "object", field |-> field, form_data |-> FormData(field, value)]

NoAjaxResponse == [status |-> 0, valid |-> FALSE, errors |-> Pending]

\* What the view returns for a body.
ValidateFormAjaxResponse(body) ==
    IF body.kind # "object"
    THEN [status |-> 200, valid |-> FALSE, errors |-> {MsgAjaxError}]
    ELSE LET form_errors == FullClean(body.form_data)
             field_errors == IF body.field \in DOMAIN form_errors
                             THEN form_errors[body.field] ELSE {}
         IN [status |-> 200, valid |-> field_errors = {}, errors |-> field_errors]

\* ---- the bodies and the stored rows of the model ----
PostedBodies ==
    {NotJson, JsonNotObject}
    \cup {JsonObject(f, v) : f \in ContactFields, v \in SampleContacts}
    \cup {JsonObject(f, v) :
            f \in {"clinic_name", "physician_name", "patient_first_name",
                   "patient_last_name"},
            v \in SampleNames}
    \cup {JsonObject("patient_dob", b) : b \in PostedDobs}
    \cup {JsonObject(f, t) : f \in {"chief_complaint", "consultation_note"}, t \in Texts}
    \cup {JsonObject(f, <<"a">>) : f \in {"clinic_logo", "no_such_field", "None"}}

SampleRows ==
    {CleanedData(BaseForm),
     CleanedData([BaseForm EXCEPT !.patient_contact = <<"a", "@", "a", ".", "a", "a">>])}

RECURSIVE StoredReports(_)
StoredReports(n) ==
    IF n = 0 THEN {<<>>}
    ELSE LET fewer == StoredReports(n - 1) IN
        fewer \cup {Append(rows, row) : rows \in fewer, row \in SampleRows}

\* The view is idle, with the rows earlier requests stored.
AjaxInit ==
    /\ pc = "idle"
    /\ form = BaseForm
    /\ formErrors = NotCleaned
    /\ reports \in StoredReports(MaxReports)
    /\ reportsAtPost = reports
    /\ trace = <<>>
    /\ flash = {}
    /\ response = NoResponse
    /\ ajaxBody = NoBody
    /\ ajaxResponse = NoAjaxResponse

AjaxIdle ==
    /\ ajaxBody = NoBody
    /\ ajaxResponse = NoAjaxResponse

\* The same view saving the form it found valid.
ValidateFormAjaxSaving ==
    /\ pc = "idle"
    /\ \E body \in PostedBodies :
        /\ ajaxBody' = body
        /\ ajaxResponse' = ValidateFormAjaxResponse(body)
        /\ reports' = IF ValidateFormAjaxResponse(body).valid
                      THEN Append(reports, CleanedData(body.form_data))
                      ELSE reports
    /\ UNCHANGED <<pc, form, formErrors, reportsAtPost, trace, flash, response>>

\* validate_form_ajax(request), a POST.
ValidateFormAjax ==
    /\ pc = "idle"
    /\ \E body \in PostedBodies :
        /\ ajaxBody' = body
        /\ ajaxResponse' = ValidateFormAjaxResponse(body)
    /\ UNCHANGED viewVars

----------------------------------------------------------------------------
(* Specifications *)

OtherThanView == <<contactVars, logoVars, ageVars, fnVars, pdfVars, ipVars, ajaxVars>>

Init == ViewInit /\ ContactIdle /\ LogoIdle /\ AgeIdle /\ FilenameIdle /\ PdfIdle /\ IpIdle
    /\ AjaxIdle

Next ==
    \/ Post /\ UNCHANGED OtherThanView
    \/ FormIsValid /\ UNCHANGED OtherThanView
    \/ Save /\ UNCHANGED OtherThanView
    \/ GeneratePdfReturns /\ UNCHANGED OtherThanView
    \/ GeneratePdfRaises /\ UNCHANGED OtherThanView
    \/ ReturnDownload /\ UNCHANGED OtherThanView
    \/ ReturnAfterException /\ UNCHANGED OtherThanView
    \/ ReturnInvalid /\ UNCHANGED OtherThanView

Spec == Init /\ [][Next]_vars

ContactNext ==
    \/ CleanPhysicianContact /\ UNCHANGED <<logoVars, viewVars, ageVars, fnVars, pdfVars, ipVars, ajaxVars>>
    \/ CleanPatientContact /\ UNCHANGED <<logoVars, viewVars, ageVars, fnVars, pdfVars, ipVars, ajaxVars>>

InitContact == ContactInit /\ LogoIdle /\ ViewIdle /\ AgeIdle /\ FilenameIdle /\ PdfIdle /\ IpIdle
    /\ AjaxIdle

SpecContact == InitContact /\ [][ContactNext]_vars

LogoNext == CleanClinicLogoStep /\ UNCHANGED <<contactVars, viewVars, ageVars, fnVars, pdfVars, ipVars, ajaxVars>>

InitLogo == LogoInit /\ ContactIdle /\ ViewIdle /\ AgeIdle /\ FilenameIdle /\ PdfIdle /\ IpIdle
    /\ AjaxIdle

SpecLogo == InitLogo /\ [][LogoNext]_vars

AgeNext == NextDayAge /\ UNCHANGED <<contactVars, logoVars, viewVars, fnVars, pdfVars, ipVars, ajaxVars>>

InitAge == AgeInit /\ ContactIdle /\ LogoIdle /\ ViewIdle /\ FilenameIdle /\ PdfIdle /\ IpIdle
    /\ AjaxIdle

SpecAge == InitAge /\ [][AgeNext]_vars

FilenameNext == CreateResponse /\ UNCHANGED <<contactVars, logoVars, viewVars, ageVars, pdfVars, ipVars, ajaxVars>>

InitFilename == FilenameInit /\ ContactIdle /\ LogoIdle /\ ViewIdle /\ AgeIdle /\ PdfIdle /\ IpIdle
    /\ AjaxIdle

SpecFilename == InitFilename /\ [][FilenameNext]_vars

OtherThanPdf == <<contactVars, logoVars, viewVars, ageVars, fnVars, ipVars, ajaxVars>>

PdfNext ==
    \/ StartBuild /\ UNCHANGED OtherThanPdf
    \/ PlaceFlowable /\ UNCHANGED OtherThanPdf
    \/ SplitParagraph /\ UNCHANGED OtherThanPdf
    \/ PostponeFlowable /\ UNCHANGED OtherThanPdf
    \/ BreakPage /\ UNCHANGED OtherThanPdf
    \/ EndBuild /\ UNCHANGED OtherThanPdf

InitPdf == PdfInit /\ ContactIdle /\ LogoIdle /\ ViewIdle /\ AgeIdle /\ FilenameIdle /\ IpIdle
    /\ AjaxIdle

SpecPdf == InitPdf /\ [][PdfNext]_vars

OtherThanIp == <<contactVars, logoVars, viewVars, ageVars, fnVars, pdfVars, ajaxVars>>

IpNext ==
    \/ GetClientIpLookupReturns /\ UNCHANGED OtherThanIp
    \/ GetClientIpLookupRaises /\ UNCHANGED OtherThanIp

InitIp == IpInit /\ ContactIdle /\ LogoIdle /\ ViewIdle /\ AgeIdle /\ FilenameIdle /\ PdfIdle
    /\ AjaxIdle

SpecIp == InitIp /\ [][IpNext]_vars

AjaxNext ==
    ValidateFormAjax /\ UNCHANGED <<contactVars, logoVars, ageVars, fnVars, pdfVars, ipVars>>

InitAjax ==
    AjaxInit /\ ContactIdle /\ LogoIdle /\ AgeIdle /\ FilenameIdle /\ PdfIdle /\ IpIdle

SpecAjax == InitAjax /\ [][AjaxNext]_vars

----------------------------------------------------------------------------
(* ConsultationReportView.post: the properties *)

Calls(call) == Cardinality({i \in DOMAIN trace : trace[i] = call})

IsPrefix(s, t) == Len(s) <= Len(t) /\ SubSeq(t, 1, Len(s)) = s

\* The three ways through post().
DownloadRun == <<"is_valid", "save", "generate_pdf_report", "return">>
ExceptionRun == <<"is_valid", "save", "generate_pdf_report", "exception", "return">>
InvalidRun == <<"is_valid", "return">>

\* C1: the calls of one request are made in the order is_valid, save,
\* generate_pdf_report, return, each at most once; save is made only after
\* is_valid returned true, generate_pdf_report only after save, and the
\* download is returned only after generate_pdf_report returned.
C1_ValidatePersistRenderReturn ==
    /\ \E run \in {DownloadRun, ExceptionRun, InvalidRun} : IsPrefix(trace, run)
    /\ \A call \in {"is_valid", "save", "generate_pdf_report", "return"} : Calls(call) <= 1
    /\ Calls("save") = 1 => (formErrors # NotCleaned /\ IsValid(formErrors))
    /\ Calls("generate_pdf_report") = 1 =>
           reports = Append(reportsAtPost, CleanedData(form))
    /\ response.kind = "pdf_download" => trace = DownloadRun

\* C1's case: a second request went all the way to the download.
C1_Witness ==
    /\ pc = "idle" /\ response.kind = "pdf_download"
    /\ trace = DownloadRun /\ Len(reports) = 2

\* C2: once is_valid() has returned false, the stored rows are those of the
\* time the request came in, nothing is saved or rendered, and what is
\* returned is the form page with the form's errors, never a download.
C2_InvalidFormPersistsNothing ==
    (formErrors # NotCleaned /\ ~IsValid(formErrors)) =>
        /\ reports = reportsAtPost
        /\ Calls("save") = 0 /\ Calls("generate_pdf_report") = 0
        /\ response.kind # "pdf_download"
        /\ pc = "idle" =>
               response = [kind |-> "form_page", has_form_errors |-> TRUE,
                           form_errors |-> FullClean(form)]

\* C2's case: with a row already stored, an invalid form got the form page.
C2_Witness ==
    /\ pc = "idle" /\ Len(reports) = 1 /\ Calls("return") = 1
    /\ formErrors # NotCleaned /\ formErrors.patient_contact = {MsgContact}
    /\ response.kind = "form_page" /\ response.has_form_errors

\* C8: a complaint or note gets the length error exactly when it is longer
\* than 5000 characters (one of 5000 or fewer gets none), and no stored row
\* has a complaint or a note longer than 5000 characters.
C8_TextLengthLimit ==
    /\ formErrors # NotCleaned =>
        /\ form.chief_complaint.len > 5000 <=>
               formErrors.chief_complaint = {MsgComplaintLength}
        /\ form.consultation_note.len > 5000 <=>
               formErrors.consultation_note = {MsgNoteLength}
        /\ form.chief_complaint.len \in 1..5000 => formErrors.chief_complaint = {}
        /\ form.consultation_note.len \in 1..5000 => formErrors.consultation_note = {}
    /\ \A i \in DOMAIN reports :
        /\ reports[i].chief_complaint.len <= 5000
        /\ reports[i].consultation_note.len <= 5000

\* C8's case: a row of exactly 5000 characters each is stored, and a later
\* form with 5001 characters was turned away.
C8_Witness ==
    /\ pc = "idle" /\ Len(reports) = 1
    /\ reports[1].chief_complaint.len = 5000
    /\ reports[1].consultation_note.len = 5000
    /\ form.chief_complaint.len = 5001
    /\ formErrors # NotCleaned /\ formErrors.chief_complaint = {MsgComplaintLength}
    /\ response.kind = "form_page"

\* C9: when generate_pdf_report raised, the row saved for the request stays
\* stored, rendering was called once, and post() returns the form page with
\* the 'Error generating PDF' message recorded, not a download.
C9_NoRollbackOnPdfError ==
    Calls("exception") > 0 =>
        /\ reports = Append(reportsAtPost, CleanedData(form))
        /\ Calls("generate_pdf_report") = 1
        /\ response.kind # "pdf_download"
        /\ pc \in {"raised", "idle"}
        /\ pc = "idle" =>
               /\ MsgPdfError \in flash
               /\ response.kind = "form_page"

\* C9's case: the second request's rendering raised and post() has returned.
C9_Witness ==
    /\ pc = "idle" /\ Calls("exception") = 1 /\ Calls("return") = 1
    /\ Len(reports) = 2 /\ Len(reportsAtPost) = 1
    /\ MsgPdfError \in flash

----------------------------------------------------------------------------
(* The PDF layout: the properties *)

\* The pages on which a flowable of that name was drawn.
PagesOf(name) ==
    {i \in DOMAIN pdfPages :
        \E j \in DOMAIN pdfPages[i].content : pdfPages[i].content[j] = name}

\* C3: every page of the document carries the decorations: the clinic name,
\* the footer with the timestamp and the user IP taken when the generation
\* started, and its own page number.
C3_DecorationsOnEveryPage ==
    \A i \in DOMAIN pdfPages :
        pdfPages[i].decorations =
            [clinic_name |-> pdfReport.clinic_name,
             footer |-> [timestamp |-> pdfTimestamp, user_ip |-> pdfUserIp],
             page_label |-> i]

\* C3's case: a document of four pages or more is finished.
C3_Witness ==
    /\ pdfPc = "done" /\ Len(pdfPages) >= 4
    /\ pdfPages[4].decorations.page_label = 4
    /\ pdfPages[4].decorations.footer.timestamp = pdfTimestamp

\* C4: the chief complaint, heading and text, lies on pages strictly before
\* every page of the consultation note, heading and text, and a finished
\* report has at least two pages with both sections on them in that order.
C4_ComplaintThenBreakThenNote ==
    /\ \A i \in PagesOf("complaint_heading") \cup PagesOf("complaint_text") :
           \A j \in PagesOf("note_heading") \cup PagesOf("note_text") : i < j
    /\ pdfPc = "done" =>
        /\ Len(pdfPages) >= 2
        /\ PagesOf("complaint_heading") # {} /\ PagesOf("complaint_text") # {}
        /\ PagesOf("note_heading") # {} /\ PagesOf("note_text") # {}

\* C4's case: a one-line complaint and a one-line note, which would share a
\* page, are on two consecutive pages.
C4_Witness ==
    /\ pdfPc = "done"
    /\ pdfReport.complaint_lines = 1 /\ pdfReport.note_lines = 1
    /\ \E i \in DOMAIN pdfPages :
           /\ PagesOf("complaint_heading") = {i}
           /\ PagesOf("note_heading") = {i + 1}

----------------------------------------------------------------------------
(* calculate_age: the properties *)

\* (month, day) of a is on or after (month, day) of b.
OnOrAfterInYear(a, b) == a.m > b.m \/ (a.m = b.m /\ a.d >= b.d)

DateLeq(a, b) ==
    a.y < b.y \/ (a.y = b.y /\ (a.m < b.m \/ (a.m = b.m /\ a.d <= b.d)))

\* C10: the age is today.year - dob.year when today's (month, day) is on or
\* after the birth (month, day) and one less otherwise; it is 0 or more when
\* the date of birth is not after today; from one day to the next it never
\* goes down, and on each birthday it goes up by exactly 1.
C10_AgeInWholeYears ==
    /\ [](/\ OnOrAfterInYear(ageToday, ageDob) =>
                 agePrinted = ageToday.y - ageDob.y
          /\ ~OnOrAfterInYear(ageToday, ageDob) =>
                 agePrinted = ageToday.y - ageDob.y - 1
          /\ DateLeq(ageDob, ageToday) => agePrinted >= 0)
    /\ [][/\ agePrinted' \in {agePrinted, agePrinted + 1}
          /\ (ageToday'.m = ageDob.m /\ ageToday'.d = ageDob.d) =>
                 agePrinted' = agePrinted + 1]_ageVars

\* C10's case: the first birthday after the birth has come, and the age is 1.
C10_Witness ==
    /\ ageToday.y = ageDob.y + 1 /\ ageToday.m = ageDob.m /\ ageToday.d = ageDob.d
    /\ agePrinted = 1

----------------------------------------------------------------------------
(* pdf_filename and the download: the properties *)

\* The date of birth as 8 digits YYYYMMDD.
EightDigits(date) ==
    ZeroPad(Decimal(date.y), 4) \o ZeroPad(Decimal(date.m), 2) \o ZeroPad(Decimal(date.d), 2)

ClaimedFilename(report) ==
    <<"C", "R", "_">> \o report.patient_last_name \o <<"_">>
        \o report.patient_first_name \o <<"_">>
        \o EightDigits(report.patient_dob) \o <<".", "p", "d", "f">>

\* C6: the response of generate_pdf_report has content type application/pdf
\* and a Content-Disposition that is an attachment whose filename is 'CR_' +
\* last name + '_' + first name + '_' + the date of birth as 8 digits
\* YYYYMMDD + '.pdf'.
C6_DownloadNamedAfterPatient ==
    fnResponse # NoDownload =>
        /\ fnResponse.content_type = "application/pdf"
        /\ fnResponse.content_disposition =
               [disposition |-> "attachment", filename |-> ClaimedFilename(fnReport),
                stored_as |-> "latin-1"]

\* C6, for a birth year of four digits: the filename is the claimed one.
C6_HoldsFromYear1000 ==
    (fnResponse # NoDownload /\ fnReport.patient_dob.y >= 1000) =>
        /\ fnResponse.content_type = "application/pdf"
        /\ fnResponse.content_disposition.disposition = "attachment"
        /\ fnResponse.content_disposition.filename = ClaimedFilename(fnReport)

\* C6, for a birth year of four digits and names within Latin-1: the whole
\* statement of the claim holds.
C6_HoldsFromYear1000InLatin1 ==
    (fnResponse # NoDownload /\ fnReport.patient_dob.y >= 1000
        /\ IsLatin1(fnReport.patient_first_name) /\ IsLatin1(fnReport.patient_last_name)) =>
        fnResponse.content_disposition =
            [disposition |-> "attachment", filename |-> ClaimedFilename(fnReport),
             stored_as |-> "latin-1"]

----------------------------------------------------------------------------
(* Contact validation: the properties *)

\* The phone numbers of the claim: after the separators are removed, an
\* optional "+" and 1 to 16 digits of which the first is not zero, or at least
\* 10 digits.
ClaimedPhone(t) ==
    LET u == IF t # <<>> /\ t[1] = "+" THEN Tail(t) ELSE t IN
    \/ /\ Len(u) \in 1..16
       /\ u[1] \in NonZeroDigits
       /\ \A i \in 1..Len(u) : IsDigit(u[i])
    \/ /\ Len(t) >= 10
       /\ \A i \in 1..Len(t) : IsDigit(t[i])

\* C5: a non-empty contact is accepted exactly when it is a valid email address
\* or a phone number (optional "+" and 1 to 16 digits starting with a non-zero
\* digit, or at least 10 digits, once spaces, hyphens and parentheses are
\* removed), and every other non-empty contact gets the contact error.
C5_ContactAcceptedIffEmailOrPhone ==
    LET value == Strip(contactRaw) IN
    (contactErrors # Pending /\ value # <<>>) =>
        /\ (contactErrors = {}) <=>
               (ValidateEmail(value) \/ ClaimedPhone(StripSeparators(value)))
        /\ contactErrors # {} => contactErrors = {MsgContact}

\* C5, away from the whitespace the pattern keeps: the statement of the claim
\* holds of every contact without a tab.
C5_HoldsWithoutInnerWhitespace ==
    LET value == Strip(contactRaw) IN
    (contactErrors # Pending /\ value # <<>> /\ Positions(value, "tab") = {}) =>
        /\ (contactErrors = {}) <=>
               (ValidateEmail(value) \/ ClaimedPhone(StripSeparators(value)))
        /\ contactErrors # {} => contactErrors = {MsgContact}

----------------------------------------------------------------------------
(* Logo validation: the properties *)

\* C7: a missing logo is accepted; an uploaded file of more than 5*1024*1024
\* bytes gets the size error alone, whatever its type (the size is tested
\* first), one of exactly that size does not; an uploaded file within the size
\* limit is accepted exactly when its content type is JPEG, PNG, GIF or WebP,
\* and gets the type error otherwise.
C7_LogoValidation ==
    logoErrors # Pending =>
        /\ ~logo.present => logoErrors = {}
        /\ (logo.present /\ logo.size > 5242880) => logoErrors = {MsgLogoSize}
        /\ (logo.present /\ logo.size <= 5242880
                /\ logo.content_type \in
                       {"image/jpeg", "image/png", "image/gif", "image/webp"})
               => logoErrors = {}
        /\ (logo.present /\ logo.size <= 5242880
                /\ logo.content_type \notin
                       {"image/jpeg", "image/png", "image/gif", "image/webp"})
               => logoErrors = {MsgLogoType}

\* C7's case: a file of exactly 5 MB of an allowed type has been accepted.
C7_Witness ==
    /\ logo.present /\ logo.size = 5242880 /\ logo.content_type = "image/png"
    /\ logoErrors = {}

\* C7's other cases: too large and of the wrong type gets the size error; no
\* logo is accepted.
C7_WitnessSizeFirst ==
    /\ logo.present /\ logo.size = 5242881 /\ logo.content_type = "image/bmp"
    /\ logoErrors = {MsgLogoSize}

----------------------------------------------------------------------------
(* get_client_ip: the properties *)

\* The address the fallback determines, None or empty when it determines none.
ClaimedFallback ==
    IF ~Falsy(ipXff) THEN SplitFirst(ipXff) ELSE ipRemoteAddr

ClaimedClientIp ==
    IF ~ipLookup.raised /\ ~Falsy(ipLookup.ip) THEN ipLookup.ip
    ELSE IF ~Falsy(ClaimedFallback) THEN ClaimedFallback
    ELSE Unknown

\* C11: get_client_ip always returns a non-empty address text: the public
\* address when the lookup succeeds and reports a non-empty ip, otherwise the
\* first entry of X-Forwarded-For when the header is there, else REMOTE_ADDR,
\* and 'Unknown' when no address can be determined.
C11_ClientIpAlwaysUsable ==
    ipResult # NotCalled =>
        /\ ~Falsy(ipResult)
        /\ ipResult = ClaimedClientIp

\* The claim holds of every call whose lookup raises, reports an address, or
\* whose fallback determines an address.
C11_HoldsUnlessLookupSilentAndNoFallback ==
    (/\ ipResult # NotCalled
     /\ \/ ipLookup.raised
        \/ ~Falsy(ipLookup.ip)
        \/ ~Falsy(ClaimedFallback)) =>
        /\ ~Falsy(ipResult)
        /\ ipResult = ClaimedClientIp

\* What is returned in the remaining case: the fallback itself, None or ''.
C11_SilentLookupReturnsEmptyFallback ==
    (/\ ipResult # NotCalled
     /\ ~ipLookup.raised
     /\ Falsy(ipLookup.ip)
     /\ Falsy(ClaimedFallback)) =>
        /\ Falsy(ipResult)
        /\ ipResult = ClaimedFallback

----------------------------------------------------------------------------
(* validate_form_ajax: the properties *)

\* The errors the form holds for the field the request names, none for a
\* name the form has no field for.
NamedFieldErrors ==
    IF ajaxBody.field \in FormFields
    THEN FullClean(ajaxBody.form_data)[ajaxBody.field]
    ELSE {}

AjaxAnswered == ajaxResponse # NoAjaxResponse

\* C12: validate_form_ajax only validates and never persists: every POST
\* leaves the stored reports as they were; the JSON answer's 'valid' is true
\* exactly when the named field has no validation errors and 'errors' lists
\* the errors of that field; a request whose processing raises (a body that
\* is not JSON, or no JSON object) is answered with valid = false and the
\* single error 'Validation error occurred', not with an error response.
C12_ValidatesWithoutPersisting ==
    /\ [](AjaxAnswered =>
            /\ ajaxResponse.status = 200
            /\ ajaxBody.kind = "object" =>
                /\ ajaxResponse.valid <=> NamedFieldErrors = {}
                /\ ajaxResponse.errors = NamedFieldErrors
            /\ ajaxBody.kind # "object" =>
                /\ ajaxResponse.valid = FALSE
                /\ ajaxResponse.errors = {MsgAjaxError})
    /\ [][reports' = reports]_vars

\* A field with an error and a body that is not JSON, each answered while
\* reports are stored.
C12_Witness ==
    /\ AjaxAnswered
    /\ ajaxBody.kind = "object"
    /\ ajaxBody.field = "physician_contact"
    /\ ajaxResponse.valid = FALSE
    /\ ajaxResponse.errors = {MsgContact}
    /\ Len(reports) >= 1

C12_WitnessValid ==
    /\ AjaxAnswered
    /\ ajaxBody.kind = "object"
    /\ ajaxBody.field = "patient_contact"
    /\ ajaxResponse.valid
    /\ Len(reports) >= 1

C12_WitnessException ==
    /\ AjaxAnswered
    /\ ajaxBody.kind = "not_json"
    /\ Len(reports) >= 1

============================================================================
